---- MODULE Spec2Model ----
(***************************************************************************)
(* IPAM pool reconciliation (hbernardo/ipam): ipam.apply and the range and *)
(* prefix allocators it drives.                                            *)
(*                                                                         *)
(* Addresses are the integers 0 .. 2^Bits - 1 of one address family.  An   *)
(* IP string is modelled by the address it parses to (net.ParseIP followed *)
(* by ip.String() yields the canonical text, and the code only ever keys   *)
(* on ip.String()).  A CIDR string is the pair <<ip, prefixLen>> as        *)
(* written, host bits included; the empty tuple is a string that does not  *)
(* parse (such as "").  A range string "first-last" is <<first, last>>;    *)
(* the empty tuple is a range string that does not parse.                  *)
(***************************************************************************)
EXTENDS Integers, Sequences, FiniteSets, TLC

\* ------------------------------------------------------------------------
\* Bounds
\* ------------------------------------------------------------------------

\* width of an address in bits (32 or 128 in net.IP)
Bits == 3

\* number of apply calls in one behaviour
MaxApplies == 2

RECURSIVE Pow2(_)
Pow2(n) == IF n <= 0 THEN 1 ELSE 2 * Pow2(n - 1)

AddrCount == Pow2(Bits)

Addrs == 0 .. (AddrCount - 1)

\* ------------------------------------------------------------------------
\* Address-space arithmetic
\* ------------------------------------------------------------------------

\* ip.Mask(net.CIDRMask(len, Bits)): clear the host bits
Mask(ip, len) == (ip \div Pow2(Bits - len)) * Pow2(Bits - len)

\* net.ParseCIDR(s): the address as written and the network masked to the prefix
ParseCIDR(s) ==
  IF Len(s) # 2 THEN [err |-> "parse", ip |-> 0, net |-> <<0, 0>>]
  ELSE IF s[1] \notin Addrs \/ s[2] \notin 0 .. Bits
       THEN [err |-> "parse", ip |-> 0, net |-> <<0, 0>>]
       ELSE [err |-> "nil", ip |-> s[1], net |-> <<Mask(s[1], s[2]), s[2]>>]

\* (*net.IPNet).Contains(ip)
Contains(net, ip) == Mask(ip, net[2]) = net[1]

\* (*net.IPNet).String(): network address and prefix length
NetString(net) == <<net[1], net[2]>>

\* the addresses of a network, as a set
NetAddrs(net) == {a \in Addrs : Contains(net, a)}

\* the addresses of the subnet a CIDR string denotes
CIDRAddrSet(cidr) ==
  IF ParseCIDR(cidr).err = "nil" THEN NetAddrs(ParseCIDR(cidr).net) ELSE {}

\* byte-wise increment with carry; the all-ones address wraps to zero
incIP(ip) == (ip + 1) % AddrCount

\* takes any address for the successor
isTheNextIPAlways(ipToCheck, previousIP) == TRUE

isTheNextIP(ipToCheck, previousIP) == incIP(previousIP) = ipToCheck

\* next subnet of the same prefix length: advance by the subnet size
nextSubnet(subnet, prefix) ==
  <<(Mask(subnet[1], prefix) + Pow2(Bits - prefix)) % AddrCount, prefix>>

\* ------------------------------------------------------------------------
\* Usage tracker: a set of <<datacenter, key>>; an address key is <<ip>>,
\* a subnet key is the CIDR string <<ip, prefixLen>>
\* ------------------------------------------------------------------------

newDatacenterIPAMPoolUsageMap == {}

isUsed(usage, dc, key) == <<dc, key>> \in usage

setUsed(usage, dc, key) == usage \cup {<<dc, key>>}

IPKey(ip) == <<ip>>

\* ------------------------------------------------------------------------
\* Range allocation (range_allocation.go)
\* ------------------------------------------------------------------------

\* for ip := firstIP; !ip.Equal(lastIP); ip = incIP(ip) { append }; append last
RECURSIVE ExpandRange(_, _)
ExpandRange(firstIP, lastIP) ==
  IF firstIP = lastIP THEN <<lastIP>>
  ELSE <<firstIP>> \o ExpandRange(incIP(firstIP), lastIP)

RECURSIVE getUsedIPsFromAddressRanges(_)
getUsedIPsFromAddressRanges(addressRanges) ==
  IF addressRanges = <<>> THEN [err |-> "nil", ips |-> <<>>]
  ELSE LET addressRange == Head(addressRanges) IN
       IF Len(addressRange) # 2 THEN [err |-> "parse", ips |-> <<>>]
       ELSE LET rest == getUsedIPsFromAddressRanges(Tail(addressRanges)) IN
            IF rest.err # "nil" THEN rest
            ELSE [err |-> "nil",
                  ips |-> ExpandRange(addressRange[1], addressRange[2]) \o rest.ips]

checkRangeAllocation(ips, poolCIDR, allocationRange) ==
  IF allocationRange # Len(ips) THEN "incompatible"
  ELSE LET pool == ParseCIDR(poolCIDR) IN
       IF pool.err # "nil" THEN pool.err
       ELSE IF \E i \in 1 .. Len(ips) : ~Contains(pool.net, ips[i])
            THEN "incompatible"
            ELSE "nil"

\* skips an address that is used in any datacenter
RECURSIVE RangeFreeWalkAnyDatacenter(_, _, _, _, _, _)
RangeFreeWalkAnyDatacenter(ip, ipNet, steps, rangeFreeIPs, dc, usage) ==
  IF ~Contains(ipNet, ip) THEN [err |-> "nil", ips |-> rangeFreeIPs]
  ELSE IF steps = AddrCount THEN [err |-> "hang", ips |-> <<>>]
  ELSE RangeFreeWalkAnyDatacenter(incIP(ip), ipNet, steps + 1,
                     IF \E u \in usage : u[2] = IPKey(ip) THEN rangeFreeIPs
                     ELSE Append(rangeFreeIPs, ip),
                     dc, usage)

\* for ip := ip.Mask(ipNet.Mask); ipNet.Contains(ip); ip = incIP(ip):
\* the walk ends when ip leaves the network; a walk that has made AddrCount
\* steps is back at its first address and never ends
RECURSIVE RangeFreeWalk(_, _, _, _, _, _)
RangeFreeWalk(ip, ipNet, steps, rangeFreeIPs, dc, usage) ==
  IF ~Contains(ipNet, ip) THEN [err |-> "nil", ips |-> rangeFreeIPs]
  ELSE IF steps = AddrCount THEN [err |-> "hang", ips |-> <<>>]
  ELSE RangeFreeWalk(incIP(ip), ipNet, steps + 1,
                     IF isUsed(usage, dc, IPKey(ip)) THEN rangeFreeIPs
                     ELSE Append(rangeFreeIPs, ip),
                     dc, usage)

calculateRangeFreeIPsFromDatacenterPool(dc, poolCIDR, usage) ==
  LET pool == ParseCIDR(poolCIDR) IN
  IF pool.err # "nil" THEN [err |-> pool.err, ips |-> <<>>]
  ELSE RangeFreeWalk(Mask(pool.ip, pool.net[2]), pool.net, 0, <<>>, dc, usage)

\* the loop over j of findFirstFreeRangesOfPool; it is the 0-based
\* rangeFreeIPsIterator, so rangeFreeIPs[it + 1] is the Go rangeFreeIPs[it]
RECURSIVE RangeTakeLoop(_, _, _, _, _, _, _, _)
RangeTakeLoop(j, it, firstAddressRangeIP, addressRanges, usage, rangeFreeIPs, allocationRange, dc) ==
  IF j >= allocationRange THEN [addresses |-> addressRanges, usage |-> usage]
  ELSE LET ipToAllocate == rangeFreeIPs[it + 1]
           closes == \/ j + 1 = allocationRange
                     \/ ~isTheNextIP(rangeFreeIPs[it + 2], ipToAllocate)
       IN RangeTakeLoop(j + 1, it + 1,
            IF closes /\ j + 1 < allocationRange
            THEN rangeFreeIPs[it + 2] ELSE firstAddressRangeIP,
            IF closes
            THEN Append(addressRanges, <<firstAddressRangeIP, ipToAllocate>>)
            ELSE addressRanges,
            setUsed(usage, dc, IPKey(ipToAllocate)),
            rangeFreeIPs, allocationRange, dc)

findFirstFreeRangesOfPool(dc, poolCIDR, allocationRange, usage) ==
  LET free == calculateRangeFreeIPsFromDatacenterPool(dc, poolCIDR, usage) IN
  IF free.err # "nil"
  THEN [err |-> free.err, addresses |-> <<>>, usage |-> usage]
  ELSE IF allocationRange > Len(free.ips)
  THEN [err |-> "capacity", addresses |-> <<>>, usage |-> usage]
  ELSE IF Len(free.ips) = 0
  \* rangeFreeIPs[0] on an empty slice: index out of range
  THEN [err |-> "panic", addresses |-> <<>>, usage |-> usage]
  ELSE LET r == RangeTakeLoop(0, 0, free.ips[1], <<>>, usage,
                              free.ips, allocationRange, dc)
       IN [err |-> "nil", addresses |-> r.addresses, usage |-> r.usage]

\* ------------------------------------------------------------------------
\* Prefix allocation
\* ------------------------------------------------------------------------

\* accepts an existing subnet coarser than the allocation prefix asked for
checkPrefixAllocationCoarser(subnetCIDR, poolCIDR, allocationPrefix) ==
  LET sub == ParseCIDR(subnetCIDR) IN
  IF sub.err # "nil" THEN sub.err
  ELSE LET subnetPrefix == sub.net[2] IN
       IF allocationPrefix < subnetPrefix THEN "incompatible"
       ELSE LET pool == ParseCIDR(poolCIDR) IN
            IF pool.err # "nil" THEN pool.err
            ELSE IF subnetPrefix < pool.net[2] THEN "incompatible"
            ELSE IF subnetPrefix > Bits THEN "incompatible"
            ELSE IF ~Contains(pool.net, sub.ip) THEN "incompatible"
            ELSE "nil"

checkPrefixAllocation(subnetCIDR, poolCIDR, allocationPrefix) ==
  LET sub == ParseCIDR(subnetCIDR) IN
  IF sub.err # "nil" THEN sub.err
  ELSE LET subnetPrefix == sub.net[2] IN
       IF allocationPrefix # subnetPrefix THEN "incompatible"
       ELSE LET pool == ParseCIDR(poolCIDR) IN
            IF pool.err # "nil" THEN pool.err
            ELSE IF subnetPrefix < pool.net[2] THEN "incompatible"
            ELSE IF subnetPrefix > Bits THEN "incompatible"
            ELSE IF ~Contains(pool.net, sub.ip) THEN "incompatible"
            ELSE "nil"

\* returns the first free candidate without marking it used
RECURSIVE SubnetWalkUnmarked(_, _, _, _, _, _)
SubnetWalkUnmarked(possibleSubnet, poolSubnet, subnetPrefix, steps, dc, usage) ==
  IF ~Contains(poolSubnet, possibleSubnet[1])
  THEN [err |-> "exhaustion", cidr |-> <<>>, usage |-> usage]
  ELSE IF steps = AddrCount
  THEN [err |-> "hang", cidr |-> <<>>, usage |-> usage]
  ELSE IF ~isUsed(usage, dc, NetString(possibleSubnet))
  THEN [err |-> "nil", cidr |-> NetString(possibleSubnet), usage |-> usage]
  ELSE SubnetWalkUnmarked(nextSubnet(possibleSubnet, subnetPrefix), poolSubnet,
                          subnetPrefix, steps + 1, dc, usage)

\* for ; poolSubnet.Contains(possibleSubnet.IP); possibleSubnet = nextSubnet():
\* a walk that has made AddrCount steps has revisited a candidate without
\* finding a free one and never ends
RECURSIVE SubnetWalk(_, _, _, _, _, _)
SubnetWalk(possibleSubnet, poolSubnet, subnetPrefix, steps, dc, usage) ==
  IF ~Contains(poolSubnet, possibleSubnet[1])
  THEN [err |-> "exhaustion", cidr |-> <<>>, usage |-> usage]
  ELSE IF steps = AddrCount
  THEN [err |-> "hang", cidr |-> <<>>, usage |-> usage]
  ELSE IF ~isUsed(usage, dc, NetString(possibleSubnet))
  THEN [err |-> "nil", cidr |-> NetString(possibleSubnet),
        usage |-> setUsed(usage, dc, NetString(possibleSubnet))]
  ELSE SubnetWalk(nextSubnet(possibleSubnet, subnetPrefix), poolSubnet,
                  subnetPrefix, steps + 1, dc, usage)

\* starts the walk at the pool address as written, host bits included
findFirstFreeSubnetOfPoolUnmasked(dc, poolCIDR, subnetPrefix, usage) ==
  LET pool == ParseCIDR(poolCIDR) IN
  IF pool.err # "nil" THEN [err |-> pool.err, cidr |-> <<>>, usage |-> usage]
  ELSE IF subnetPrefix < pool.net[2]
  THEN [err |-> "invalidprefix", cidr |-> <<>>, usage |-> usage]
  ELSE IF subnetPrefix > Bits
  THEN [err |-> "invalidprefix", cidr |-> <<>>, usage |-> usage]
  ELSE LET first == ParseCIDR(<<pool.ip, subnetPrefix>>) IN
       IF first.err # "nil"
       THEN [err |-> first.err, cidr |-> <<>>, usage |-> usage]
       ELSE SubnetWalk(first.net, pool.net, subnetPrefix, 0, dc, usage)

\* does not reject a prefix length shorter than the pool's own
findFirstFreeSubnetOfPoolUnchecked(dc, poolCIDR, subnetPrefix, usage) ==
  LET pool == ParseCIDR(poolCIDR) IN
  IF pool.err # "nil" THEN [err |-> pool.err, cidr |-> <<>>, usage |-> usage]
  ELSE IF subnetPrefix > Bits
  THEN [err |-> "invalidprefix", cidr |-> <<>>, usage |-> usage]
  ELSE LET first == ParseCIDR(<<Mask(pool.ip, pool.net[2]), subnetPrefix>>) IN
       IF first.err # "nil"
       THEN [err |-> first.err, cidr |-> <<>>, usage |-> usage]
       ELSE SubnetWalk(first.net, pool.net, subnetPrefix, 0, dc, usage)

\* does not reject a prefix length longer than the address width
findFirstFreeSubnetOfPoolUnbounded(dc, poolCIDR, subnetPrefix, usage) ==
  LET pool == ParseCIDR(poolCIDR) IN
  IF pool.err # "nil" THEN [err |-> pool.err, cidr |-> <<>>, usage |-> usage]
  ELSE IF subnetPrefix < pool.net[2]
  THEN [err |-> "invalidprefix", cidr |-> <<>>, usage |-> usage]
  ELSE LET first == ParseCIDR(<<Mask(pool.ip, pool.net[2]), subnetPrefix>>) IN
       IF first.err # "nil"
       THEN [err |-> first.err, cidr |-> <<>>, usage |-> usage]
       ELSE SubnetWalk(first.net, pool.net, subnetPrefix, 0, dc, usage)

findFirstFreeSubnetOfPool(dc, poolCIDR, subnetPrefix, usage) ==
  LET pool == ParseCIDR(poolCIDR) IN
  IF pool.err # "nil" THEN [err |-> pool.err, cidr |-> <<>>, usage |-> usage]
  ELSE IF subnetPrefix < pool.net[2]
  THEN [err |-> "invalidprefix", cidr |-> <<>>, usage |-> usage]
  ELSE IF subnetPrefix > Bits
  THEN [err |-> "invalidprefix", cidr |-> <<>>, usage |-> usage]
  ELSE LET first == ParseCIDR(<<Mask(pool.ip, pool.net[2]), subnetPrefix>>) IN
       IF first.err # "nil"
       THEN [err |-> first.err, cidr |-> <<>>, usage |-> usage]
       ELSE SubnetWalk(first.net, pool.net, subnetPrefix, 0, dc, usage)

\* ------------------------------------------------------------------------
\* Reconciliation engine (ipam.apply)
\* ------------------------------------------------------------------------

\* the orders in which a range over a Go map may visit the keys S
MapOrders(S) ==
  {o \in [1 .. Cardinality(S) -> S] : \A i, j \in DOMAIN o : i # j => o[i] # o[j]}

RECURSIVE ClusterAllocations(_)
ClusterAllocations(dcClusters) ==
  IF dcClusters = <<>> THEN <<>>
  ELSE Head(dcClusters).IPAMAllocations \o ClusterAllocations(Tail(dcClusters))

\* the allocation records in the order the three nested loops of
\* compileCurrentAllocationsForPool visit them
RECURSIVE AllocationsInOrder(_, _)
AllocationsInOrder(table, order) ==
  IF order = <<>> THEN <<>>
  ELSE ClusterAllocations(table[Head(order)]) \o AllocationsInOrder(table, Tail(order))

RECURSIVE CompileLoop(_, _, _)
CompileLoop(allocations, ipamPool, usage) ==
  IF allocations = <<>> THEN [err |-> "nil", usage |-> usage]
  ELSE
    LET ipamAllocation == Head(allocations)
        isDCConfigured == ipamAllocation.Datacenter \in DOMAIN ipamPool.Datacenters
        dcIPAMPoolCfg == ipamPool.Datacenters[ipamAllocation.Datacenter]
    IN
    IF ~isDCConfigured \/ ipamAllocation.IPAMPoolName # ipamPool.Name
    THEN CompileLoop(Tail(allocations), ipamPool, usage)
    ELSE IF ipamAllocation.Type = "range"
    THEN LET used == getUsedIPsFromAddressRanges(ipamAllocation.Addresses) IN
         IF used.err # "nil" THEN [err |-> used.err, usage |-> usage]
         ELSE LET chk == checkRangeAllocation(used.ips, dcIPAMPoolCfg.PoolCIDR,
                                              dcIPAMPoolCfg.AllocationRange)
              IN IF chk # "nil" THEN [err |-> chk, usage |-> usage]
                 ELSE CompileLoop(Tail(allocations), ipamPool,
                        usage \cup {<<ipamAllocation.Datacenter, IPKey(used.ips[i])>> :
                                       i \in 1 .. Len(used.ips)})
    ELSE IF ipamAllocation.Type = "prefix"
    THEN LET chk == checkPrefixAllocation(ipamAllocation.CIDR, dcIPAMPoolCfg.PoolCIDR,
                                          dcIPAMPoolCfg.AllocationPrefix)
         IN IF chk # "nil" THEN [err |-> chk, usage |-> usage]
            ELSE CompileLoop(Tail(allocations), ipamPool,
                             setUsed(usage, ipamAllocation.Datacenter, ipamAllocation.CIDR))
    ELSE CompileLoop(Tail(allocations), ipamPool, usage)

\* checks the existing allocations but records none of them as used
compileCurrentAllocationsForPoolUnmarked(table, ipamPool, order) ==
  [err |-> CompileLoop(AllocationsInOrder(table, order), ipamPool,
                       newDatacenterIPAMPoolUsageMap).err,
   usage |-> newDatacenterIPAMPoolUsageMap]

compileCurrentAllocationsForPool(table, ipamPool, order) ==
  CompileLoop(AllocationsInOrder(table, order), ipamPool,
              newDatacenterIPAMPoolUsageMap)

\* visits the clusters of each datacenter from the last to the first
RECURSIVE ClustersInReverse(_, _)
ClustersInReverse(table, order) ==
  IF order = <<>> THEN <<>>
  ELSE [i \in 1 .. Len(table[Head(order)]) |->
          <<Head(order), table[Head(order)][Len(table[Head(order)]) + 1 - i]>>]
       \o ClustersInReverse(table, Tail(order))

\* the <<dc, cluster>> pairs in the order the two nested loops of
\* generateNewAllocationsForPool visit them
RECURSIVE ClustersInOrder(_, _)
ClustersInOrder(table, order) ==
  IF order = <<>> THEN <<>>
  ELSE [i \in 1 .. Len(table[Head(order)]) |-> <<Head(order), table[Head(order)][i]>>]
       \o ClustersInOrder(table, Tail(order))

\* takes an allocation of any pool for an allocation of this pool
isClusterAlreadyAllocatedForAnyPool(cluster, ipamPool) ==
  Len(cluster.IPAMAllocations) > 0

isClusterAlreadyAllocatedForPool(cluster, ipamPool) ==
  \E i \in 1 .. Len(cluster.IPAMAllocations) :
     cluster.IPAMAllocations[i].IPAMPoolName = ipamPool.Name

RECURSIVE GenerateLoop(_, _, _, _)
GenerateLoop(pairs, ipamPool, usage, newClustersAllocations) ==
  IF pairs = <<>> THEN [err |-> "nil", allocations |-> newClustersAllocations]
  ELSE
    LET dc == Head(pairs)[1]
        cluster == Head(pairs)[2]
        dcIPAMPoolCfg == ipamPool.Datacenters[dc]
        newClustersAllocation ==
          [IPAMPoolName |-> ipamPool.Name, Cluster |-> cluster.Name,
           Datacenter |-> dc, Type |-> dcIPAMPoolCfg.Type,
           CIDR |-> <<>>, Addresses |-> <<>>]
    IN
    IF dc \notin DOMAIN ipamPool.Datacenters
    THEN GenerateLoop(Tail(pairs), ipamPool, usage, newClustersAllocations)
    ELSE IF isClusterAlreadyAllocatedForPool(cluster, ipamPool)
    THEN GenerateLoop(Tail(pairs), ipamPool, usage, newClustersAllocations)
    ELSE IF dcIPAMPoolCfg.Type = "range"
    THEN LET r == findFirstFreeRangesOfPool(dc, dcIPAMPoolCfg.PoolCIDR,
                                            dcIPAMPoolCfg.AllocationRange, usage)
         IN IF r.err # "nil" THEN [err |-> r.err, allocations |-> <<>>]
            ELSE GenerateLoop(Tail(pairs), ipamPool, r.usage,
                   Append(newClustersAllocations,
                          [newClustersAllocation EXCEPT !.Addresses = r.addresses]))
    ELSE IF dcIPAMPoolCfg.Type = "prefix"
    THEN LET r == findFirstFreeSubnetOfPool(dc, dcIPAMPoolCfg.PoolCIDR,
                                            dcIPAMPoolCfg.AllocationPrefix, usage)
         IN IF r.err # "nil" THEN [err |-> r.err, allocations |-> <<>>]
            ELSE GenerateLoop(Tail(pairs), ipamPool, r.usage,
                   Append(newClustersAllocations,
                          [newClustersAllocation EXCEPT !.CIDR = r.cidr]))
    ELSE GenerateLoop(Tail(pairs), ipamPool, usage,
                      Append(newClustersAllocations, newClustersAllocation))

generateNewAllocationsForPool(table, ipamPool, usage, order) ==
  GenerateLoop(ClustersInOrder(table, order), ipamPool, usage, <<>>)

\* the first cluster of the record's datacenter whose name is the record's
\* cluster gets the record appended
AddAllocation(table, newClusterAllocation) ==
  LET dcClusters == table[newClusterAllocation.Datacenter]
      hits == {i \in 1 .. Len(dcClusters) :
                 dcClusters[i].Name = newClusterAllocation.Cluster}
  IN IF hits = {} THEN table
     ELSE LET i == CHOOSE h \in hits : \A g \in hits : h <= g IN
          [table EXCEPT ![newClusterAllocation.Datacenter][i].IPAMAllocations =
                           Append(@, newClusterAllocation)]

RECURSIVE CommitLoop(_, _)
CommitLoop(newClustersAllocations, table) ==
  IF newClustersAllocations = <<>> THEN table
  ELSE CommitLoop(Tail(newClustersAllocations),
                  AddAllocation(table, Head(newClustersAllocations)))

\* apply that commits the records of the datacenter visited first as soon as
\* that datacenter is done (the per-datacenter commit of setDatacenterAllocation)
applyCommitPerDatacenter(table, ipamPool, compileOrder, generateOrder) ==
  LET c == compileCurrentAllocationsForPool(table, ipamPool, compileOrder) IN
  IF c.err # "nil" THEN [err |-> c.err, table |-> table]
  ELSE LET g == generateNewAllocationsForPool(table, ipamPool, c.usage, generateOrder)
           g1 == generateNewAllocationsForPool(table, ipamPool, c.usage,
                                               <<Head(generateOrder)>>)
       IN IF g.err # "nil"
          THEN [err |-> g.err, table |-> CommitLoop(g1.allocations, table)]
          ELSE [err |-> "nil", table |-> CommitLoop(g.allocations, table)]

\* ipam.apply: the table it leaves and the error it returns ("nil" for none;
\* "panic" and "hang" are the calls that do not return)
apply(table, ipamPool, compileOrder, generateOrder) ==
  LET c == compileCurrentAllocationsForPool(table, ipamPool, compileOrder) IN
  IF c.err # "nil" THEN [err |-> c.err, table |-> table]
  ELSE LET g == generateNewAllocationsForPool(table, ipamPool, c.usage, generateOrder) IN
       IF g.err # "nil" THEN [err |-> g.err, table |-> table]
       ELSE [err |-> "nil", table |-> CommitLoop(g.allocations, table)]

\* ------------------------------------------------------------------------
\* Inputs: the tables and the pool specs a caller hands to apply
\* ------------------------------------------------------------------------

\* a pool CIDR of four addresses at the bottom of the address space
LowPool == <<0, Bits - 2>>

\* a pool CIDR of four addresses ending at the highest address
TopPool == <<AddrCount - 4, Bits - 2>>

\* the pool CIDR that covers the whole address space
WholePool == <<0, 0>>

\* a string that is not a CIDR
BadCIDR == <<>>

Settings(type, poolCIDR, allocationPrefix, allocationRange) ==
  [Type |-> type, PoolCIDR |-> poolCIDR,
   AllocationPrefix |-> allocationPrefix, AllocationRange |-> allocationRange]

RangeSettings ==
  { Settings("range", LowPool, 0, 2),
    Settings("range", LowPool, 0, 3),
    Settings("range", LowPool, 0, 0),
    Settings("range", LowPool, Bits - 1, 2),
    Settings("range", LowPool, Bits - 1, 3),
    Settings("range", TopPool, 0, 2),
    Settings("range", WholePool, 0, 2),
    Settings("range", BadCIDR, 0, 2) }

PrefixSettings ==
  { Settings("prefix", LowPool, Bits - 1, 0),
    Settings("prefix", LowPool, Bits, 0),
    Settings("prefix", LowPool, Bits - 3, 0),
    Settings("prefix", LowPool, Bits + 1, 0),
    Settings("prefix", TopPool, Bits - 1, 0),
    Settings("prefix", WholePool, 0, 0) }

OtherSettings == { Settings("other", LowPool, 0, 0) }

Pool(name, datacenters) == [Name |-> name, Datacenters |-> datacenters]

\* a function with the one key k
One(k, v) == [x \in {k} |-> v]

Pools ==
  { Pool("p", One("d1", s)) : s \in RangeSettings \cup PrefixSettings \cup OtherSettings }
  \cup { Pool("p", [d \in {"d1", "d2"} |-> IF d = "d1" THEN s1 ELSE s2]) :
           s1 \in { Settings("range", LowPool, 0, 2),
                    Settings("prefix", LowPool, Bits + 1, 0) },
           s2 \in { Settings("range", LowPool, 0, 2),
                    Settings("range", LowPool, 0, 3) } }
  \cup { Pool("q", One("d1", s)) :
           s \in { Settings("range", LowPool, 0, 2),
                   Settings("prefix", LowPool, Bits - 1, 0) } }

Allocation(pool, cluster, dc, type, cidr, addresses) ==
  [IPAMPoolName |-> pool, Cluster |-> cluster, Datacenter |-> dc,
   Type |-> type, CIDR |-> cidr, Addresses |-> addresses]

\* the allocation lists the first cluster of a datacenter may arrive with
ExistingAllocations(cluster, dc) ==
  { <<>>,
    <<Allocation("p", cluster, dc, "range", <<>>, << <<0, 1>> >>)>>,
    <<Allocation("p", cluster, dc, "range", <<>>, << <<1, 2>>, <<2, 3>> >>)>>,
    <<Allocation("p", cluster, dc, "range", <<>>, << <<AddrCount - 1, 0>> >>)>>,
    <<Allocation("p", cluster, dc, "range", <<>>, << <<>> >>)>>,
    <<Allocation("p", cluster, dc, "prefix", <<1, Bits - 1>>, <<>>)>>,
    <<Allocation("p", cluster, dc, "prefix", <<2, Bits - 1>>, <<>>)>>,
    <<Allocation("q", cluster, dc, "range", <<>>, << <<0, 1>> >>)>>,
    <<Allocation("p", cluster, dc, "range", <<>>, << <<0, 0>>, <<2, 2>> >>),
      Allocation("p", cluster, dc, "range", <<>>, << <<1, 1>>, <<3, 3>> >>)>> }

Cluster(name, allocations) == [Name |-> name, IPAMAllocations |-> allocations]

\* the cluster lists of datacenter d1: a first cluster with what it holds,
\* then none, another cluster, or a second cluster of the same name
D1Clusters ==
  { <<Cluster("a", e)>> : e \in ExistingAllocations("a", "d1") }
  \cup { <<Cluster("a", e), Cluster(n, <<>>)>> :
           e \in ExistingAllocations("a", "d1"), n \in {"a", "b"} }

D2Clusters ==
  { <<Cluster("c", <<>>)>>, <<Cluster("c", <<>>), Cluster("d", <<>>)>> }

Tables ==
  { One("d1", c1) : c1 \in D1Clusters }
  \cup { [d \in {"d1", "d2"} |-> IF d = "d1" THEN c1 ELSE c2] :
           c1 \in D1Clusters, c2 \in D2Clusters }

\* ------------------------------------------------------------------------
\* State
\* ------------------------------------------------------------------------

VARIABLES
  datacenterAllocations,  \* ipam.datacenterAllocations, the table
  ipamPool,               \* the pool spec of the last apply call
  err,                    \* what the last apply call returned
  before,                 \* the table when the last apply call was made
  calls,                  \* the number of apply calls made
  dcIPAMPoolUsageMap,     \* the usage tracker handed to an allocator
  lastAllocation,         \* the last direct call of an allocator
  removed                 \* the record the caller has taken out of the table

vars == <<datacenterAllocations, ipamPool, err, before, calls,
          dcIPAMPoolUsageMap, lastAllocation, removed>>

NoPool == Pool("", <<>>)

NoAllocation ==
  [op |-> "none", poolCIDR |-> <<>>, count |-> 0, used |-> {},
   err |-> "none", addresses |-> <<>>, cidr |-> <<>>]

\* no record removed; at is the number of apply calls made before the removal
NoRemoval == [at |-> 0, dc |-> "", cluster |-> 0, record |-> <<>>]

Init ==
  /\ datacenterAllocations \in Tables
  /\ ipamPool = NoPool
  /\ err = "none"
  /\ before = datacenterAllocations
  /\ calls = 0
  /\ dcIPAMPoolUsageMap = newDatacenterIPAMPoolUsageMap
  /\ lastAllocation = NoAllocation
  /\ removed = NoRemoval

\* a call of apply that panicked or does not return ends the program
Running == err \notin {"panic", "hang"}

\* apply whose replay still counts the record the caller has removed
ApplyKeepingUsage(pool) ==
  /\ Running
  /\ calls < MaxApplies
  /\ \E compileOrder, generateOrder \in MapOrders(DOMAIN datacenterAllocations) :
       LET stale == IF removed.record = <<>> THEN <<>> ELSE <<removed.record>>
           c == CompileLoop(AllocationsInOrder(datacenterAllocations, compileOrder) \o stale,
                            pool, newDatacenterIPAMPoolUsageMap)
           g == generateNewAllocationsForPool(datacenterAllocations, pool, c.usage,
                                              generateOrder)
       IN /\ datacenterAllocations' =
               IF c.err = "nil" /\ g.err = "nil"
               THEN CommitLoop(g.allocations, datacenterAllocations)
               ELSE datacenterAllocations
          /\ err' = IF c.err # "nil" THEN c.err ELSE g.err
  /\ ipamPool' = pool
  /\ before' = datacenterAllocations
  /\ calls' = calls + 1
  /\ UNCHANGED <<dcIPAMPoolUsageMap, lastAllocation, removed>>

\* ipam.apply(pool), the two map ranges visiting the datacenters in any order
Apply(pool) ==
  /\ Running
  /\ calls < MaxApplies
  /\ \E compileOrder, generateOrder \in MapOrders(DOMAIN datacenterAllocations) :
       LET r == apply(datacenterAllocations, pool, compileOrder, generateOrder) IN
       /\ datacenterAllocations' = r.table
       /\ err' = r.err
  /\ ipamPool' = pool
  /\ before' = datacenterAllocations
  /\ calls' = calls + 1
  /\ UNCHANGED <<dcIPAMPoolUsageMap, lastAllocation, removed>>

Next == \E pool \in Pools : Apply(pool)

Spec == Init /\ [][Next]_vars

\* ------------------------------------------------------------------------
\* The caller editing its table between two calls of apply
\* ------------------------------------------------------------------------

\* a sequence without its k-th element
RemoveAt(seq, k) == SubSeq(seq, 1, k - 1) \o SubSeq(seq, k + 1, Len(seq))

\* the caller takes record k of cluster i of datacenter dc out of the table
\* it shares with the ipam value; once in a behaviour, after the first call
\* of apply and while another call can follow
RemoveAllocation(dc, i, k) ==
  /\ Running
  /\ calls = 1
  /\ calls < MaxApplies
  /\ removed = NoRemoval
  /\ dc \in DOMAIN datacenterAllocations
  /\ i \in 1 .. Len(datacenterAllocations[dc])
  /\ k \in 1 .. Len(datacenterAllocations[dc][i].IPAMAllocations)
  /\ removed' = [at |-> calls, dc |-> dc, cluster |-> i,
                 record |-> datacenterAllocations[dc][i].IPAMAllocations[k]]
  /\ datacenterAllocations' =
       [datacenterAllocations EXCEPT ![dc][i].IPAMAllocations = RemoveAt(@, k)]
  /\ UNCHANGED <<ipamPool, err, before, calls, dcIPAMPoolUsageMap, lastAllocation>>

\* the caller's behaviours are followed up to the call of apply that comes
\* after the removal
NextCaller ==
  \/ \E pool \in Pools : removed.at \in {0, calls} /\ Apply(pool)
  \/ \E dc \in DOMAIN datacenterAllocations :
       \E i \in 1 .. Len(datacenterAllocations[dc]) :
         \E k \in 1 .. Len(datacenterAllocations[dc][i].IPAMAllocations) :
           RemoveAllocation(dc, i, k)

SpecCaller == Init /\ [][NextCaller]_vars

\* ------------------------------------------------------------------------
\* The allocators on their own: one call on any tracker state
\* ------------------------------------------------------------------------

\* the largest count asked of the range allocator
MaxCount == 5

\* a pool CIDR string written with host bits set; it denotes LowPool
HostBitsPool == <<1, Bits - 2>>

AllocatorPools == {LowPool, TopPool, HostBitsPool, WholePool, BadCIDR}

\* address keys of the two four-address pools
AddressKeys ==
  {IPKey(a) : a \in CIDRAddrSet(LowPool) \cup CIDRAddrSet(TopPool)}

\* subnet keys: the candidates inside LowPool and TopPool, a CIDR string with
\* host bits set, and the whole address space
SubnetKeys ==
  {<<a, Bits>> : a \in CIDRAddrSet(LowPool)}
  \cup {<<a, Bits - 1>> : a \in {0, 1, 2, AddrCount - 4, AddrCount - 2}}
  \cup {<<0, 0>>}

Trackers ==
  {{<<"d1", k>> : k \in K} : K \in SUBSET AddressKeys}
  \cup {{<<"d1", k>> : k \in K} : K \in SUBSET SubnetKeys}

InitAllocator ==
  /\ datacenterAllocations = One("d1", <<>>)
  /\ ipamPool = NoPool
  /\ err = "none"
  /\ before = datacenterAllocations
  /\ calls = 0
  /\ dcIPAMPoolUsageMap \in Trackers
  /\ lastAllocation = NoAllocation
  /\ removed = NoRemoval

\* findFirstFreeRangesOfPool("d1", poolCIDR, count, tracker)
RangeAllocate(poolCIDR, count) ==
  /\ lastAllocation.op = "none"
  /\ LET r == findFirstFreeRangesOfPool("d1", poolCIDR, count, dcIPAMPoolUsageMap) IN
     /\ lastAllocation' = [op |-> "range", poolCIDR |-> poolCIDR, count |-> count,
                       used |-> dcIPAMPoolUsageMap, err |-> r.err,
                       addresses |-> r.addresses, cidr |-> <<>>]
     /\ dcIPAMPoolUsageMap' = r.usage
  /\ UNCHANGED <<datacenterAllocations, ipamPool, err, before, calls, removed>>

\* findFirstFreeSubnetOfPool("d1", poolCIDR, subnetPrefix, tracker)
PrefixAllocate(poolCIDR, subnetPrefix) ==
  /\ lastAllocation.op = "none"
  /\ LET r == findFirstFreeSubnetOfPool("d1", poolCIDR, subnetPrefix, dcIPAMPoolUsageMap) IN
     /\ lastAllocation' = [op |-> "prefix", poolCIDR |-> poolCIDR, count |-> subnetPrefix,
                       used |-> dcIPAMPoolUsageMap, err |-> r.err,
                       addresses |-> <<>>, cidr |-> r.cidr]
     /\ dcIPAMPoolUsageMap' = r.usage
  /\ UNCHANGED <<datacenterAllocations, ipamPool, err, before, calls, removed>>

NextAllocator ==
  \/ \E poolCIDR \in AllocatorPools, count \in 0 .. MaxCount :
       RangeAllocate(poolCIDR, count)
  \/ \E poolCIDR \in AllocatorPools, subnetPrefix \in 0 .. (Bits + 1) :
       PrefixAllocate(poolCIDR, subnetPrefix)

SpecAllocator == InitAllocator /\ [][NextAllocator]_vars

\* ------------------------------------------------------------------------
\* Vocabulary of the properties
\* ------------------------------------------------------------------------

\* the errors apply returns
ErrorKinds == {"parse", "incompatible", "capacity", "exhaustion", "invalidprefix"}

Succeeded == calls > 0 /\ err = "nil"

Failed == calls > 0 /\ err \in ErrorKinds

\* the addresses a list of range strings covers (strings that parse)
RECURSIVE RangeAddrSet(_)
RangeAddrSet(addressRanges) ==
  IF addressRanges = <<>> THEN {}
  ELSE LET r == Head(addressRanges)
           ips == IF Len(r) = 2 THEN ExpandRange(r[1], r[2]) ELSE <<>>
       IN {ips[i] : i \in 1 .. Len(ips)} \cup RangeAddrSet(Tail(addressRanges))

\* the address set of an allocation record: what its range strings cover
AddressSet(record) == RangeAddrSet(record.Addresses)

\* positions <<i, k>>: record k of cluster i of datacenter dc
Positions(table, dc) ==
  UNION {{<<i, k>> : k \in 1 .. Len(table[dc][i].IPAMAllocations)} :
           i \in 1 .. Len(table[dc])}

RecordAt(table, dc, pos) == table[dc][pos[1]].IPAMAllocations[pos[2]]

\* the positions of the records the last apply call appended
NewPositions(dc) ==
  {pos \in Positions(datacenterAllocations, dc) :
      pos[2] > Len(before[dc][pos[1]].IPAMAllocations)}

\* the datacenters of the table that the last spec configures with a type
ConfiguredAs(type) ==
  {dc \in DOMAIN datacenterAllocations \cap DOMAIN ipamPool.Datacenters :
      ipamPool.Datacenters[dc].Type = type}

HoldsPool(cluster, name) ==
  \E k \in 1 .. Len(cluster.IPAMAllocations) :
     cluster.IPAMAllocations[k].IPAMPoolName = name

\* ------------------------------------------------------------------------
\* C1 - atomicity
\* ------------------------------------------------------------------------

\* C1: whenever apply returns an error of any kind, the table is exactly what
\* it was before the call, also when clusters of another datacenter had been
\* allocated earlier in the same pass
C1_UnchangedOnError == Failed => datacenterAllocations = before

\* a capacity error in d2 of a spec whose d1 part alone allocates new records
C1_Witness ==
  /\ Failed
  /\ err = "capacity"
  /\ DOMAIN ipamPool.Datacenters = {"d1", "d2"}
  /\ DOMAIN before = {"d1", "d2"}
  /\ LET alone == apply(before, Pool(ipamPool.Name, One("d1", ipamPool.Datacenters["d1"])),
                        <<"d1", "d2">>, <<"d1", "d2">>)
     IN alone.err = "nil" /\ alone.table # before

\* ------------------------------------------------------------------------
\* C2 - idempotence
\* ------------------------------------------------------------------------

\* C2: applying the same pool spec again right after a successful apply
\* succeeds and leaves the table as the first apply left it
C2_Idempotence ==
  [][(Succeeded /\ calls' = calls + 1 /\ ipamPool' = ipamPool)
       => (err' = "nil" /\ datacenterAllocations' = datacenterAllocations)]_vars

\* ------------------------------------------------------------------------
\* C3 - non-overlap of range allocations
\* ------------------------------------------------------------------------

\* range allocations of one datacenter and pool name are pairwise disjoint
RangesPairwiseDisjoint(table) ==
  \A dc \in DOMAIN table :
    \A p1, p2 \in Positions(table, dc) :
      (/\ p1 # p2
       /\ RecordAt(table, dc, p1).Type = "range"
       /\ RecordAt(table, dc, p2).Type = "range"
       /\ RecordAt(table, dc, p1).IPAMPoolName = RecordAt(table, dc, p2).IPAMPoolName)
        => AddressSet(RecordAt(table, dc, p1)) \cap AddressSet(RecordAt(table, dc, p2)) = {}

C4_PrefixNonOverlap ==
  Succeeded =>
    \A dc \in ConfiguredAs("prefix") :
      \A new \in NewPositions(dc) :
        \A pos \in Positions(datacenterAllocations, dc) :
          (/\ pos # new
           /\ RecordAt(datacenterAllocations, dc, pos).IPAMPoolName = ipamPool.Name
           /\ RecordAt(datacenterAllocations, dc, pos).Type = "prefix")
            => CIDRAddrSet(RecordAt(datacenterAllocations, dc, new).CIDR)
                 \cap CIDRAddrSet(RecordAt(datacenterAllocations, dc, pos).CIDR) = {}

\* ------------------------------------------------------------------------
\* C5 - containment
\* ------------------------------------------------------------------------

\* the addresses a record holds, as range strings or as a subnet
HeldAddresses(record) == AddressSet(record) \cup CIDRAddrSet(record.CIDR)

\* C5: every allocation record a successful apply creates lies inside the
\* pool CIDR the spec configures for the record's datacenter: every address
\* of a range allocation is in it, a prefix allocation's subnet is a subset
C5_Containment ==
  Succeeded =>
    \A dc \in DOMAIN datacenterAllocations :
      \A new \in NewPositions(dc) :
        LET r == RecordAt(datacenterAllocations, dc, new)
            poolCIDR == ipamPool.Datacenters[r.Datacenter].PoolCIDR
        IN /\ r.Datacenter \in DOMAIN ipamPool.Datacenters
           /\ HeldAddresses(r) \subseteq CIDRAddrSet(poolCIDR)

\* a new prefix record in a pool that is a proper part of the address space,
\* created while another subnet of the pool was already taken
C5_Witness ==
  /\ Succeeded
  /\ \E dc \in ConfiguredAs("prefix") :
       \E new \in NewPositions(dc) :
         LET r == RecordAt(datacenterAllocations, dc, new) IN
         /\ CIDRAddrSet(r.CIDR) # {}
         /\ CIDRAddrSet(ipamPool.Datacenters[r.Datacenter].PoolCIDR) # Addrs
         /\ r.CIDR[1] # ParseCIDR(ipamPool.Datacenters[r.Datacenter].PoolCIDR).net[1]

\* ------------------------------------------------------------------------
\* C8 - frame of a successful apply
\* ------------------------------------------------------------------------

\* C8: a successful apply only appends one new record at the end of the
\* allocation list of each cluster it allocates for; existing records keep
\* content and position, a cluster that already holds an allocation of the
\* pool gets no record, and datacenters the spec does not name are untouched
C8_AppendOnly ==
  Succeeded =>
    /\ DOMAIN datacenterAllocations = DOMAIN before
    /\ \A dc \in DOMAIN before :
         /\ Len(datacenterAllocations[dc]) = Len(before[dc])
         /\ \A i \in 1 .. Len(before[dc]) :
              LET old == before[dc][i]
                  new == datacenterAllocations[dc][i]
              IN /\ new.Name = old.Name
                 /\ Len(new.IPAMAllocations) >= Len(old.IPAMAllocations)
                 /\ SubSeq(new.IPAMAllocations, 1, Len(old.IPAMAllocations))
                      = old.IPAMAllocations
                 /\ (dc \notin DOMAIN ipamPool.Datacenters => new = old)
                 /\ (HoldsPool(old, ipamPool.Name) => new = old)
                 /\ (dc \in DOMAIN ipamPool.Datacenters /\ ~HoldsPool(old, ipamPool.Name)
                       => Len(new.IPAMAllocations) = Len(old.IPAMAllocations) + 1)

\* ------------------------------------------------------------------------
\* C9, C10 - compatibility of the allocations replayed
\* ------------------------------------------------------------------------

\* the records of the table before the call that the replay checks
Replayed(type) ==
  {r \in UNION {{RecordAt(before, dc, pos) : pos \in Positions(before, dc)} :
                  dc \in DOMAIN before} :
      /\ r.IPAMPoolName = ipamPool.Name
      /\ r.Datacenter \in DOMAIN ipamPool.Datacenters
      /\ r.Type = type}

\* every string the replay reads is well formed
ReplayParses ==
  /\ \A r \in Replayed("range") :
       /\ \A k \in 1 .. Len(r.Addresses) : Len(r.Addresses[k]) = 2
       /\ ParseCIDR(ipamPool.Datacenters[r.Datacenter].PoolCIDR).err = "nil"
  /\ \A r \in Replayed("prefix") :
       /\ ParseCIDR(r.CIDR).err = "nil"
       /\ ParseCIDR(ipamPool.Datacenters[r.Datacenter].PoolCIDR).err = "nil"

RangeCompatible(r) ==
  LET cfg == ipamPool.Datacenters[r.Datacenter] IN
  /\ Cardinality(RangeAddrSet(r.Addresses)) = cfg.AllocationRange
  /\ RangeAddrSet(r.Addresses) \subseteq CIDRAddrSet(cfg.PoolCIDR)

PrefixCompatible(r) ==
  LET cfg == ipamPool.Datacenters[r.Datacenter]
      subnet == ParseCIDR(r.CIDR).net
      pool == ParseCIDR(cfg.PoolCIDR).net
  IN /\ subnet[2] = cfg.AllocationPrefix
     /\ subnet[2] >= pool[2]
     /\ subnet[2] <= Bits
     /\ subnet[1] \in NetAddrs(pool)

\* C9: an existing range allocation of the pool in a configured datacenter is
\* accepted exactly when the set of addresses its range strings expand to has
\* allocationRange members, all inside the pool CIDR; otherwise apply fails
\* with the incompatible-pool error
C9_RangeCompatibility ==
  (calls > 0 /\ ReplayParses) =>
    /\ (\E r \in Replayed("range") : ~RangeCompatible(r)) => err = "incompatible"
    /\ ((\A r \in Replayed("range") : RangeCompatible(r)) /\ Replayed("prefix") = {})
         => err # "incompatible"

\* C10: an existing prefix allocation of the pool in a configured datacenter
\* is accepted exactly when its prefix length equals allocationPrefix, lies in
\* [poolPrefix, Bits], and its network address is inside the pool CIDR;
\* otherwise apply fails with the incompatible-pool error
C10_PrefixCompatibility ==
  (calls > 0 /\ ReplayParses) =>
    /\ (\E r \in Replayed("prefix") : ~PrefixCompatible(r)) => err = "incompatible"
    /\ ((\A r \in Replayed("prefix") : PrefixCompatible(r)) /\ Replayed("range") = {})
         => err # "incompatible"

\* a record written with host bits set is accepted
C10_Witness ==
  /\ calls > 0
  /\ ReplayParses
  /\ err = "nil"
  /\ \E r \in Replayed("prefix") :
       /\ PrefixCompatible(r)
       /\ r.CIDR[1] # ParseCIDR(r.CIDR).net[1]

\* ------------------------------------------------------------------------
\* C6 - minimal partition of the range allocator
\* ------------------------------------------------------------------------

\* the elements of a set of addresses in ascending order
RECURSIVE Ascending(_)
Ascending(S) ==
  IF S = {} THEN <<>>
  ELSE LET m == CHOOSE x \in S : \A y \in S : x <= y
       IN <<m>> \o Ascending(S \ {m})

\* the addresses a list of range strings covers, in the order written
RECURSIVE ExpandAll(_)
ExpandAll(addressRanges) ==
  IF addressRanges = <<>> THEN <<>>
  ELSE ExpandRange(Head(addressRanges)[1], Head(addressRanges)[2])
       \o ExpandAll(Tail(addressRanges))

\* the free addresses of the pool of the last allocator call, ascending
FreeBefore ==
  Ascending({a \in CIDRAddrSet(lastAllocation.poolCIDR) :
               <<"d1", IPKey(a)>> \notin lastAllocation.used})

\* the number of maximal runs of consecutive addresses in an ascending list
Runs(ips) ==
  IF ips = <<>> THEN 0
  ELSE 1 + Cardinality({i \in 1 .. (Len(ips) - 1) : ips[i + 1] # ips[i] + 1})

RangeAllocated == lastAllocation.op = "range" /\ lastAllocation.err = "nil"

\* C6: when the range allocator succeeds for a count N, the returned range
\* strings, expanded in order, are exactly the N lowest free addresses of the
\* pool CIDR, ascending; each string is a maximal run of consecutive
\* addresses, so there are as many strings as maximal runs
C6_MinimalPartition ==
  RangeAllocated =>
    LET lowest == SubSeq(FreeBefore, 1, lastAllocation.count)
        ranges == lastAllocation.addresses
    IN /\ Len(FreeBefore) >= lastAllocation.count
       /\ ExpandAll(ranges) = lowest
       /\ \A k \in 1 .. Len(ranges) : ranges[k][1] <= ranges[k][2]
       /\ \A k \in 1 .. (Len(ranges) - 1) : ranges[k + 1][1] # ranges[k][2] + 1
       /\ Len(ranges) = Runs(lowest)

\* a gap in the free addresses splits the result; one string is "ip-ip"
C6_Witness ==
  /\ RangeAllocated
  /\ lastAllocation.count >= 3
  /\ Len(lastAllocation.addresses) >= 2
  /\ \E k \in 1 .. Len(lastAllocation.addresses) :
       lastAllocation.addresses[k][1] = lastAllocation.addresses[k][2]
  /\ \E k \in 1 .. Len(lastAllocation.addresses) :
       lastAllocation.addresses[k][1] < lastAllocation.addresses[k][2]

\* ------------------------------------------------------------------------
\* C7 - first fit of the prefix allocator
\* ------------------------------------------------------------------------

PrefixAllocated == lastAllocation.op = "prefix" /\ lastAllocation.err = "nil"

\* C7: when the prefix allocator succeeds, the subnet returned has prefix
\* length exactly the one asked for, is aligned to it, lies inside the pool
\* CIDR, and is the lowest such subnet whose CIDR string is not marked used
C7_PrefixFirstFit ==
  PrefixAllocated =>
    LET ip == lastAllocation.cidr[1]
        len == lastAllocation.cidr[2]
        pool == CIDRAddrSet(lastAllocation.poolCIDR)
    IN /\ len = lastAllocation.count
       /\ ip = Mask(ip, len)
       /\ CIDRAddrSet(lastAllocation.cidr) \subseteq pool
       /\ <<"d1", <<ip, len>>>> \notin lastAllocation.used
       /\ \A a \in pool :
            (a < ip /\ a = Mask(a, len)) => <<"d1", <<a, len>>>> \in lastAllocation.used

\* the subnet returned is not the first candidate of the pool
C7_Witness ==
  /\ PrefixAllocated
  /\ \E a \in CIDRAddrSet(lastAllocation.poolCIDR) : a < lastAllocation.cidr[1]
  /\ CIDRAddrSet(lastAllocation.poolCIDR) # Addrs

\* ------------------------------------------------------------------------
\* C11 - shape of the allocations replayed
\* ------------------------------------------------------------------------

\* the records of the table before the call that the replay checks and whose
\* type is not the type the spec configures for their datacenter
ShapeMismatches ==
  {r \in Replayed("range") \cup Replayed("prefix") :
      r.Type # ipamPool.Datacenters[r.Datacenter].Type}

\* C11: when an existing allocation of the spec's pool name, in a datacenter
\* the spec configures, has a shape (range or prefix) other than the type the
\* spec configures for that datacenter, apply fails with the incompatible-pool
\* error and allocates nothing
C11_ShapeMismatch ==
  (calls > 0 /\ ReplayParses /\ ShapeMismatches # {})
    => (err = "incompatible" /\ datacenterAllocations = before)

\* ------------------------------------------------------------------------
\* C12 - datacenters of the spec that the table does not have
\* ------------------------------------------------------------------------

\* C12: when the pool spec names a datacenter that is absent from the table,
\* apply fails with the unknown-datacenter error and leaves the table as it was
C12_UnknownDatacenter ==
  (calls > 0 /\ DOMAIN ipamPool.Datacenters \ DOMAIN before # {})
    => (err = "unknowndatacenter" /\ datacenterAllocations = before)

\* ------------------------------------------------------------------------
\* C13 - capacity of a range pool
\* ------------------------------------------------------------------------

\* the replay of the last call accepted every record it checked
ReplayAccepts ==
  \A order \in MapOrders(DOMAIN before) :
     compileCurrentAllocationsForPool(before, ipamPool, order).err = "nil"

\* the datacenters of the table that the last spec configures
Configured == DOMAIN before \cap DOMAIN ipamPool.Datacenters

\* the number of clusters of dc that held no allocation of the pool
Unallocated(dc) ==
  Cardinality({i \in 1 .. Len(before[dc]) : ~HoldsPool(before[dc][i], ipamPool.Name)})

\* the addresses that the existing allocations of the pool hold in dc
HeldByPool(dc) ==
  UNION {HeldAddresses(RecordAt(before, dc, pos)) :
           pos \in {q \in Positions(before, dc) :
                      RecordAt(before, dc, q).IPAMPoolName = ipamPool.Name}}

\* at the turn of some unallocated cluster of dc fewer than allocationRange
\* addresses of the pool CIDR are free: the k-th of them finds the free
\* addresses less the (k - 1) * allocationRange taken before it
RangeShortage(dc) ==
  LET cfg == ipamPool.Datacenters[dc]
      free == CIDRAddrSet(cfg.PoolCIDR) \ HeldByPool(dc)
  IN Cardinality(free) < Unallocated(dc) * cfg.AllocationRange

\* C13: for range-type datacenters, apply fails with the capacity error
\* exactly when, at the turn of some unallocated cluster, fewer than
\* allocationRange addresses of the pool CIDR are still free; when enough
\* remain for every unallocated cluster, each receives exactly allocationRange
\* addresses
C13_Capacity ==
  (/\ calls > 0
   /\ ReplayAccepts
   /\ Configured # {}
   /\ Configured = ConfiguredAs("range")
   /\ \A dc \in Configured : ParseCIDR(ipamPool.Datacenters[dc].PoolCIDR).err = "nil")
    => /\ (err = "capacity") <=> (\E dc \in Configured : RangeShortage(dc))
       /\ (\A dc \in Configured : ~RangeShortage(dc))
            => /\ err = "nil"
               /\ \A dc \in Configured :
                    /\ Cardinality(NewPositions(dc)) = Unallocated(dc)
                    /\ \A new \in NewPositions(dc) :
                         Cardinality(AddressSet(RecordAt(datacenterAllocations, dc, new)))
                           = ipamPool.Datacenters[dc].AllocationRange

\* ------------------------------------------------------------------------
\* C14 - exhaustion of a prefix pool
\* ------------------------------------------------------------------------

\* the allocation prefix lies in [poolPrefix, Bits]
ValidPrefix(cfg) ==
  /\ ParseCIDR(cfg.PoolCIDR).err = "nil"
  /\ cfg.AllocationPrefix >= ParseCIDR(cfg.PoolCIDR).net[2]
  /\ cfg.AllocationPrefix <= Bits

\* the tracker as the replay of the last call left it
ReplayUsage ==
  compileCurrentAllocationsForPool(before, ipamPool,
     CHOOSE order \in MapOrders(DOMAIN before) : TRUE).usage

\* the aligned subnets of the allocation prefix inside the pool CIDR of dc
\* whose CIDR string the replay did not mark used
FreeSubnets(dc) ==
  LET cfg == ipamPool.Datacenters[dc] IN
  {a \in CIDRAddrSet(cfg.PoolCIDR) :
      /\ a = Mask(a, cfg.AllocationPrefix)
      /\ <<dc, <<a, cfg.AllocationPrefix>>>> \notin ReplayUsage}

PrefixShortage(dc) == Unallocated(dc) > Cardinality(FreeSubnets(dc))

\* C14: for prefix-type datacenters with a valid allocationPrefix, apply fails
\* with the exhaustion error exactly when the clusters needing a subnet
\* outnumber the aligned subnets of that length inside the pool CIDR that are
\* not marked used; no subnet outside the pool CIDR is ever returned
C14_Exhaustion ==
  (/\ calls > 0
   /\ ReplayAccepts
   /\ Configured # {}
   /\ Configured = ConfiguredAs("prefix")
   /\ \A dc \in Configured : ValidPrefix(ipamPool.Datacenters[dc]))
    => /\ (err = "exhaustion") <=> (\E dc \in Configured : PrefixShortage(dc))
       /\ \A dc \in Configured :
            \A new \in NewPositions(dc) :
              CIDRAddrSet(RecordAt(datacenterAllocations, dc, new).CIDR)
                \subseteq CIDRAddrSet(ipamPool.Datacenters[dc].PoolCIDR)

\* ------------------------------------------------------------------------
\* C15 - invalid allocation prefix
\* ------------------------------------------------------------------------

\* the settings of a prefix-type datacenter that make the last allocator call
LastPrefixSettings ==
  Settings("prefix", lastAllocation.poolCIDR, lastAllocation.count, 0)

\* the tables of one datacenter in which apply reaches the prefix allocator
\* for pool p with those settings: the replay accepts what the first cluster
\* holds and some cluster holds no allocation of p
ReachingTables ==
  {t \in {One("d1", c) : c \in D1Clusters} :
      /\ compileCurrentAllocationsForPool(t, Pool("p", One("d1", LastPrefixSettings)),
                                          <<"d1">>).err = "nil"
      /\ \E i \in 1 .. Len(t["d1"]) : ~HoldsPool(t["d1"][i], "p")}

\* C15: for a pool CIDR that parses, the prefix allocator fails with the
\* invalid-prefix error exactly when the prefix length asked for is smaller
\* than the pool CIDR's own or larger than the address width, whatever the
\* tracker holds and leaving the tracker as it was; an apply that reaches the
\* allocator with such settings returns that error and leaves the table
\* unchanged
C15_InvalidPrefix ==
  (lastAllocation.op = "prefix" /\ ParseCIDR(lastAllocation.poolCIDR).err = "nil")
    => /\ (lastAllocation.err = "invalidprefix") <=> ~ValidPrefix(LastPrefixSettings)
       /\ lastAllocation.err = "invalidprefix"
            => /\ dcIPAMPoolUsageMap = lastAllocation.used
               /\ \A t \in ReachingTables :
                    apply(t, Pool("p", One("d1", LastPrefixSettings)), <<"d1">>, <<"d1">>)
                      = [err |-> "invalidprefix", table |-> t]

\* a prefix length shorter than the pool's own, asked of a tracker in which
\* some candidate subnets of the pool are used
C15_Witness ==
  /\ lastAllocation.op = "prefix"
  /\ lastAllocation.err = "invalidprefix"
  /\ lastAllocation.count < ParseCIDR(lastAllocation.poolCIDR).net[2]
  /\ lastAllocation.used # {}
  /\ Cardinality(ReachingTables) > 1

\* ------------------------------------------------------------------------
\* C16 - isolation of pools by name
\* ------------------------------------------------------------------------

\* the records of a list that belong to the pool of that name
OfPool(allocations, name) ==
  LET IsOfPool(r) == r.IPAMPoolName = name IN SelectSeq(allocations, IsOfPool)

\* the table with every record of another pool name taken out
WithoutOtherPools(table, name) ==
  [dc \in DOMAIN table |->
     [i \in 1 .. Len(table[dc]) |->
        Cluster(table[dc][i].Name, OfPool(table[dc][i].IPAMAllocations, name))]]

\* C16: the outcome of apply for pool name N and the records of N that every
\* cluster holds afterwards are those of the same call on the table without
\* the allocations of other pool names: addresses held under another name are
\* not treated as used, and a cluster holding only other pools' allocations
\* is treated as unallocated
C16_PoolIsolation ==
  calls > 0 =>
    \E compileOrder, generateOrder \in MapOrders(DOMAIN before) :
      LET alone == apply(WithoutOtherPools(before, ipamPool.Name), ipamPool,
                         compileOrder, generateOrder)
      IN /\ alone.err = err
         /\ alone.table = WithoutOtherPools(datacenterAllocations, ipamPool.Name)

\* a cluster that held only another pool's range is given the same addresses
C16_Witness ==
  /\ Succeeded
  /\ \E dc \in Configured :
       \E i \in 1 .. Len(before[dc]) :
         LET old == before[dc][i].IPAMAllocations
             new == datacenterAllocations[dc][i].IPAMAllocations
         IN /\ Len(old) > 0
            /\ ~HoldsPool(before[dc][i], ipamPool.Name)
            /\ Len(new) = Len(old) + 1
            /\ AddressSet(new[Len(new)]) \cap AddressSet(old[1]) # {}

\* ------------------------------------------------------------------------
\* C17 - one allocation of the pool per cluster
\* ------------------------------------------------------------------------

\* the number of records of the pool of that name a cluster holds
CountOfPool(cluster, name) == Len(OfPool(cluster.IPAMAllocations, name))

\* C17: after a successful apply on a table in which no cluster held two
\* records of the pool name, every cluster of every datacenter the spec
\* configures holds exactly one record of the pool name, also when clusters
\* of a datacenter share a name
C17_OneAllocationPerCluster ==
  (/\ Succeeded
   /\ \A dc \in DOMAIN before : \A i \in 1 .. Len(before[dc]) :
        CountOfPool(before[dc][i], ipamPool.Name) <= 1)
    => \A dc \in Configured : \A i \in 1 .. Len(datacenterAllocations[dc]) :
         CountOfPool(datacenterAllocations[dc][i], ipamPool.Name) = 1

\* ------------------------------------------------------------------------
\* C18 - independence of the order of the datacenters
\* ------------------------------------------------------------------------

\* C18: for the same initial table and pool spec, every order in which replay
\* and generation visit the datacenters yields the same final table
C18_OrderIndependence ==
  calls > 0 =>
    \A compileOrder, generateOrder \in MapOrders(DOMAIN before) :
      apply(before, ipamPool, compileOrder, generateOrder).table = datacenterAllocations

\* two datacenters are allocated in one successful call, both from the same
\* pool CIDR
C18_Witness ==
  /\ Succeeded
  /\ Cardinality(Configured) = 2
  /\ \A dc \in Configured : NewPositions(dc) # {}
  /\ \E d1, d2 \in Configured :
       /\ d1 # d2
       /\ \E n1 \in NewPositions(d1), n2 \in NewPositions(d2) :
            AddressSet(RecordAt(datacenterAllocations, d1, n1))
              \cap AddressSet(RecordAt(datacenterAllocations, d2, n2)) # {}

\* ------------------------------------------------------------------------
\* C19 - termination
\* ------------------------------------------------------------------------

\* C19: apply terminates for every table and every pool spec: no call ends in
\* an enumeration of a pool CIDR that never stops, also when the CIDR ends at
\* the highest address or covers the whole address space
C19_Termination == calls > 0 => err # "hang"

\* ------------------------------------------------------------------------
\* C20 - shape of the records created
\* ------------------------------------------------------------------------

\* exactly one of addresses and cidr is populated, the one of the type
WellShaped(record) ==
  \/ /\ record.Type = "range"
     /\ record.Addresses # <<>>
     /\ record.CIDR = <<>>
  \/ /\ record.Type = "prefix"
     /\ record.CIDR # <<>>
     /\ record.Addresses = <<>>

\* C20: every record appended by an apply that returns without error has
\* exactly one of addresses and cidr populated, matching its type, whatever
\* type string and allocationRange the spec carries
C20_RecordShape ==
  Succeeded =>
    \A dc \in DOMAIN datacenterAllocations :
      \A new \in NewPositions(dc) :
        WellShaped(RecordAt(datacenterAllocations, dc, new))

\* ------------------------------------------------------------------------
\* C21 - the successor of the highest address
\* ------------------------------------------------------------------------

\* the addresses the post statement ip = incIP(ip) of the loop of
\* calculateRangeFreeIPsFromDatacenterPool is applied to
RECURSIVE WalkIncrements(_, _, _)
WalkIncrements(ip, ipNet, steps) ==
  IF ~Contains(ipNet, ip) THEN {}
  ELSE IF steps = AddrCount THEN {}
  ELSE {ip} \cup WalkIncrements(incIP(ip), ipNet, steps + 1)

RangeWalkIncrements(poolCIDR) ==
  LET pool == ParseCIDR(poolCIDR) IN
  IF pool.err # "nil" THEN {}
  ELSE WalkIncrements(Mask(pool.ip, pool.net[2]), pool.net, 0)

\* the addresses the post statement ip = incIP(ip) of the expansion loop of
\* getUsedIPsFromAddressRanges is applied to: all but the last
ExpandIncrements(addressRange) ==
  LET ips == ExpandRange(addressRange[1], addressRange[2]) IN
  {ips[i] : i \in 1 .. (Len(ips) - 1)}

\* addresses that incIP was applied to in a call of apply that returned nil:
\* the replay expanded every range record it checks, and the range allocator
\* walked the pool CIDR of every range-type datacenter with a cluster to
\* allocate
Incremented ==
  UNION {RangeWalkIncrements(ipamPool.Datacenters[dc].PoolCIDR) :
           dc \in {d \in ConfiguredAs("range") : Unallocated(d) > 0}}
  \cup UNION {UNION {ExpandIncrements(r.Addresses[k]) : k \in 1 .. Len(r.Addresses)} :
                r \in Replayed("range")}

\* C21: no enumeration performed during apply computes the successor of the
\* highest address of the address space
C21_NoOverflow == Succeeded => (AddrCount - 1) \notin Incremented

\* ------------------------------------------------------------------------
\* C22 - the prefix allocator and the tracker
\* ------------------------------------------------------------------------

\* C22 as stated: the prefix allocator leaves the usage tracker unchanged,
\* returning the first candidate subnet that is not marked used without
\* marking it
C22_TrackerUnchanged ==
  lastAllocation.op = "prefix" => dcIPAMPoolUsageMap = lastAllocation.used

\* C22 as amended: the prefix allocator marks the subnet it returns used
\* itself and changes nothing else in the tracker; the subnet was not marked
\* before, and a call that fails leaves the tracker unchanged
C22_MarksReturned ==
  lastAllocation.op = "prefix" =>
    IF lastAllocation.err = "nil"
    THEN /\ <<"d1", lastAllocation.cidr>> \notin lastAllocation.used
         /\ dcIPAMPoolUsageMap = lastAllocation.used \cup {<<"d1", lastAllocation.cidr>>}
    ELSE dcIPAMPoolUsageMap = lastAllocation.used

\* a subnet is returned from a tracker that already held other subnets
C22_Witness ==
  /\ PrefixAllocated
  /\ lastAllocation.used # {}
  /\ dcIPAMPoolUsageMap # lastAllocation.used
  /\ lastAllocation.cidr[1] # ParseCIDR(lastAllocation.poolCIDR).net[1]

\* ------------------------------------------------------------------------
\* C23 - no usage carried from one call to the next
\* ------------------------------------------------------------------------

\* the positions of a set in the order generation creates their records:
\* by cluster, then by place in the cluster's list
RECURSIVE InOrder(_)
InOrder(S) ==
  IF S = {} THEN <<>>
  ELSE LET m == CHOOSE x \in S : \A y \in S :
                  x[1] < y[1] \/ (x[1] = y[1] /\ x[2] <= y[2])
       IN <<m>> \o InOrder(S \ {m})

\* the records the last call created in dc, in that order
NewRecords(dc) ==
  LET pos == InOrder(NewPositions(dc)) IN
  [n \in 1 .. Len(pos) |-> RecordAt(datacenterAllocations, dc, pos[n])]

RECURSIVE AllAddresses(_)
AllAddresses(records) ==
  IF records = <<>> THEN <<>>
  ELSE ExpandAll(Head(records).Addresses) \o AllAddresses(Tail(records))

\* the addresses of the pool CIDR of dc that the replay of the table as it
\* was handed to the last call did not mark, ascending
FreeAddresses(dc) ==
  Ascending({a \in CIDRAddrSet(ipamPool.Datacenters[dc].PoolCIDR) :
               <<dc, IPKey(a)>> \notin ReplayUsage})

\* the records created in dc are the first fit over what the table handed to
\* the call leaves free
FirstFit(dc) ==
  LET cfg == ipamPool.Datacenters[dc]
      news == NewRecords(dc)
  IN /\ Len(news) = Unallocated(dc)
     /\ cfg.Type = "range" =>
          AllAddresses(news)
            = SubSeq(FreeAddresses(dc), 1, Unallocated(dc) * cfg.AllocationRange)
     /\ cfg.Type = "prefix" =>
          [n \in 1 .. Len(news) |-> news[n].CIDR[1]]
            = SubSeq(Ascending(FreeSubnets(dc)), 1, Unallocated(dc))

\* an apply has been made since the caller removed a record
AfterRemoval == removed # NoRemoval /\ calls > removed.at

\* C23: no usage is carried from one apply to the next: after the caller has
\* removed an allocation record, a successful apply of the same pool hands out
\* first-fit what the table it is given leaves free, the addresses or subnet
\* of the removed record included
C23_NoCarriedUsage ==
  (AfterRemoval /\ Succeeded /\ ipamPool.Name = removed.record.IPAMPoolName)
    => \A dc \in Configured : FirstFit(dc)

\* the cluster that lost its record is given addresses of that record again
\* while another cluster of the datacenter holds a record of the pool
C23_Witness ==
  /\ AfterRemoval
  /\ Succeeded
  /\ ipamPool.Name = removed.record.IPAMPoolName
  /\ removed.dc \in Configured
  /\ \E new \in NewPositions(removed.dc) :
       HeldAddresses(RecordAt(datacenterAllocations, removed.dc, new))
         \cap HeldAddresses(removed.record) # {}
  /\ \E i \in 1 .. Len(before[removed.dc]) :
       HoldsPool(before[removed.dc][i], ipamPool.Name)

\* ------------------------------------------------------------------------
\* C24 - allocation in cluster list order
\* ------------------------------------------------------------------------

\* the records the last call appended to cluster i of dc
NewRecordsOf(dc, i) ==
  {RecordAt(datacenterAllocations, dc, pos) :
     pos \in {q \in NewPositions(dc) : q[1] = i}}

C25_ErrorOrderIndependence ==
  Failed =>
    \A compileOrder, generateOrder \in MapOrders(DOMAIN before) :
      apply(before, ipamPool, compileOrder, generateOrder).err = err

\* ------------------------------------------------------------------------
\* C26 - the range allocator asked for no address
\* ------------------------------------------------------------------------

\* C26: for a pool CIDR that parses and is a proper part of the address space,
\* the range allocator called with count 0 returns an empty list of range
\* strings and no error and marks nothing used, whatever the tracker holds,
\* also when no address of the pool CIDR is free
C26_ZeroCount ==
  (/\ lastAllocation.op = "range"
   /\ lastAllocation.count = 0
   /\ CIDRAddrSet(lastAllocation.poolCIDR) \notin {{}, Addrs})
    => /\ lastAllocation.err = "nil"
       /\ lastAllocation.addresses = <<>>
       /\ dcIPAMPoolUsageMap = lastAllocation.used

====
